---- MODULE Spec2Model ----
(***************************************************************************)
(* State-machine model of the WalkingPad API: the device service (one BLE  *)
(* link, a status cache fed by notifications), the preflight validator     *)
(* (ExerciseSecurityService), the session services (ExerciseService,       *)
(* ExerciseStreamService, SessionsService) and the exercise routes.        *)
(*                                                                         *)
(* A handler is one action.  Its body is written as a chain of steps over  *)
(* a record s (the "frame") that carries every mutable object the handler  *)
(* touches, the exception in flight (s.exc) and the events it produced     *)
(* (s.trace).  Every step is the identity while an exception is in flight, *)
(* so a chain of steps reads like the Python it models.                    *)
(*                                                                         *)
(* Units: the clock counts half hours (the smallest interval the code      *)
(* reasons about, timedelta(minutes=30)); device distance is in the        *)
(* device's raw unit of 10 m (the code divides it by 100 to get km).       *)
(***************************************************************************)
EXTENDS Integers, Sequences, FiniteSets, TLC

\* ------------------------------------------------------------------ bounds
MaxRows == 2
MaxTime == 8
MaxDevCall == 16
MaxDbCall == 4

\* ------------------------------------------------------- program constants
StaleThreshold == 6
AutoCloseAfter == 1
TickSeconds == 1800
SignificantDist == 5
SignificantSteps == 50
SignificantTime == 30
MetricsRetries == 3
StreamReconnectAttempts == 3
ManualMode == 1
StandbyMode == 2
PrefRetries == 3

NULL == -1
None == 0
NoExc == "none"

VARIABLES
    now,                 \* wall clock, in half hours
    rows,                \* exercise_sessions: id -> row
    nextId,              \* the SERIAL sequence of exercise_sessions.id
    dev,                 \* the treadmill itself: mode, belt, speed, counters
    is_connected,        \* DeviceService.is_connected
    last_status,         \* DeviceService._last_status (the status cache)
    ctl_last_status,     \* Controller.last_status (the driver's last record)
    current_session,     \* ExerciseService.current_session (row id or None)
    last_device_metrics, \* ExerciseService._last_device_metrics
    stream,              \* ExerciseStreamService: current_session, _session_active, _last_metrics
    active_session_id,   \* SessionsService.active_session_id
    op,                  \* the handler that ran last
    result,              \* what it returned or raised
    preflight,           \* what check_and_clean_state did inside it
    trace,               \* the driver and store calls it made, in order
    sse,                 \* the event stream being served: generator position, idle_count, events
    metrics_service,     \* DeviceMetricsService: connected, address, its controller's last_status
    flows                \* calls of connection-wrapped methods in progress: position, was_connected

vars == <<now, rows, nextId, dev, is_connected, last_status, ctl_last_status,
          current_session, last_device_metrics, stream, active_session_id,
          op, result, preflight, trace, sse, metrics_service, flows>>

\* ------------------------------------------------------------ value spaces
Modes == {"standby", "manual", "auto"}
Belts == {"idle", "running", "standby"}

Counters(d, st, t) == [dist |-> d, steps |-> st, time |-> t]

ZeroCounters == Counters(0, 0, 0)

\* what the treadmill may have counted: nothing, exactly the thresholds,
\* and exactly one counter just above its threshold
CounterSamples ==
    { ZeroCounters,
      Counters(SignificantDist, SignificantSteps, SignificantTime),
      Counters(SignificantDist + 1, SignificantSteps, SignificantTime),
      Counters(SignificantDist, SignificantSteps + 1, SignificantTime),
      Counters(SignificantDist, SignificantSteps, SignificantTime + 1) }

\* the resident counters only grow
Grown(c, d) == c # d /\ c.dist <= d.dist /\ c.steps <= d.steps /\ c.time <= d.time

InitDevice ==
    [mode |-> "standby", belt |-> "standby", speed |-> 0, c |-> ZeroCounters]

InitStatus ==
    [mode |-> "None", belt_state |-> "None", speed |-> 0,
     distance |-> 0, steps |-> 0, time |-> 0]

NoMetrics == [set |-> FALSE, distance |-> 0, duration |-> 0, steps |-> 0, speed |-> 0]

\* a session object held in memory: the id and start_time it was loaded with
NoSession == [id |-> None, start_time |-> 0]

InitStream == [current_session |-> NoSession, active |-> FALSE, task |-> "none",
               last_metrics |-> NoMetrics]

\* no event stream is being served
\* the callers that share the DeviceService: the poll of the session stream
\* (get_fast_status) and a manual command (set_speed)
FlowIds == {"get_fast_status", "set_speed"}

\* no call of a connection-wrapped method is in progress
NoFlows == [f \in FlowIds |-> [pc |-> "out", was_connected |-> FALSE]]

NoStream == [route |-> "none", pc |-> "none", idle_count |-> 0, events |-> << >>]

NoPreflight == [called |-> FALSE, ready |-> FALSE, msg |-> "", read |-> FALSE,
                stats |-> ZeroCounters, seen |-> ""]

NoPlan == [kind |-> "none", k |-> 0]

\* a fault plan: nothing fails, exactly call k fails, or every call from k on fails
Plans(n) == {NoPlan} \cup { [kind |-> kd, k |-> k] : kd \in {"one", "from"}, k \in 1..n }

\* a burst: the calls k, k+1, ... fail, as many as a preference write is tried
Bursts(n) == { [kind |-> "burst", k |-> k] : k \in 1..n }

Hits(plan, n) ==
    \/ plan.kind = "one" /\ plan.k = n
    \/ plan.kind = "from" /\ n >= plan.k
    \/ plan.kind = "burst" /\ n >= plan.k /\ n < plan.k + PrefRetries


\* ------------------------------------------------------------------ frames
\* the inputs of one handler run: which driver call and which store call
\* fail, whether the status notification prompted by ask_stats arrives
\* before the cache is read, and whether less than a second has passed
\* since a session started in the current half hour
Inputs ==
    { in \in [dev : Plans(MaxDevCall), db : Plans(MaxDbCall),
              notify : BOOLEAN, instant : BOOLEAN] :
        in.dev = NoPlan \/ in.db = NoPlan }

Frame(in) ==
    [in |-> in, nd |-> 0, nq |-> 0, exc |-> NoExc, msg |-> "", ret |-> None, trace |-> <<>>,
     now |-> now, rows |-> rows, nextId |-> nextId, dev |-> dev,
     conn |-> is_connected, cache |-> last_status, ctl |-> ctl_last_status,
     cur |-> current_session, ldm |-> last_device_metrics, stream |-> stream,
     sid |-> active_session_id, pre |-> NoPreflight]

Ok(s) == s.exc = NoExc

Raise(s, e, m) == IF Ok(s) THEN [s EXCEPT !.exc = e, !.msg = m] ELSE s

Log(s, what, how) == [s EXCEPT !.trace = Append(@, <<what, how>>)]

\* except Exception: the handler body runs on the frame with the exception cleared
Caught(s) == [s EXCEPT !.exc = NoExc, !.msg = ""]

\* finally: the cleanup ran on Caught(s) and gave t; the pending exception of s
\* continues unless the cleanup raised one of its own
AfterFinally(s, t) == IF Ok(t) THEN [t EXCEPT !.exc = s.exc, !.msg = s.msg] ELSE t

\* ----------------------------------------------------- the driver (device)
ModeString(m) ==
    CASE m = 2 -> "standby"
      [] m = 1 -> "manual"
      [] m = 0 -> "auto"
      [] OTHER -> "unknown"

\* what a command that reached the treadmill does to it
DeviceEffect(d, cmd, arg) ==
    CASE cmd = "start_belt" -> [d EXCEPT !.belt = "running", !.speed = 10]
      [] cmd = "stop_belt" -> [d EXCEPT !.belt = "idle", !.speed = 0]
      [] cmd = "switch_mode" ->
            [d EXCEPT !.mode = ModeString(arg),
                      !.belt = IF ModeString(arg) = "standby" THEN "standby"
                               ELSE IF @ = "standby" THEN "idle" ELSE @,
                      !.speed = IF ModeString(arg) = "standby" THEN 0 ELSE @]
      [] cmd = "change_speed" -> [d EXCEPT !.speed = arg]
      [] OTHER -> d

\* the record a status notification carries
StatusRecord(d) ==
    [mode |-> d.mode, state |-> d.belt, speed |-> d.speed,
     dist |-> d.c.dist, steps |-> d.c.steps, time |-> d.c.time]

NoRecord == [mode |-> "None", state |-> "None", speed |-> 0, dist |-> 0, steps |-> 0, time |-> 0]

\* DeviceMetricsService(): no controller, not connected, no address
InitMetricsService == [connected |-> FALSE, address |-> FALSE, last_status |-> NoRecord]

\* DeviceService._on_new_status: the only writer of the status cache
OnNewStatus(cache, record) ==
    IF record = NoRecord THEN cache
    ELSE [mode |-> record.mode, belt_state |-> record.state, speed |-> record.speed,
          distance |-> record.dist, steps |-> record.steps, time |-> record.time]

\* the status notification prompted by ask_stats, when it arrives in time
Notified(s, cmd) ==
    IF cmd = "ask_stats" /\ s.in.notify
    THEN [s EXCEPT !.ctl = StatusRecord(s.dev),
                   !.cache = OnNewStatus(@, StatusRecord(s.dev))]
    ELSE s

\* the text of the exception a driver call raises
DriverError(cmd) == "device unreachable: " \o cmd

\* one call of the driver: it raises when the fault plan says so, otherwise
\* the command reaches the treadmill; ask_stats makes the treadmill notify
DriverCall(s, cmd, arg) ==
    IF ~Ok(s) THEN s
    ELSE IF Hits(s.in.dev, s.nd + 1)
    THEN Raise(Log([s EXCEPT !.nd = @ + 1], cmd, "fail"), "DeviceError", DriverError(cmd))
    ELSE Notified(Log([s EXCEPT !.nd = @ + 1, !.dev = DeviceEffect(@, cmd, arg)], cmd, "ok"),
                  cmd)

\* asyncio.sleep(minimal_cmd_space)
Sleep(s) == IF Ok(s) THEN Log(s, "sleep", "ok") ELSE s

\* any other asyncio.sleep
Pause(s, what) == IF Ok(s) THEN Log(s, what, "ok") ELSE s

\* ------------------------------------------------------------ DeviceService
\* self.is_connected = flag, reached only when the calls before it returned
SetConnected(s, flag) == IF Ok(s) THEN [s EXCEPT !.conn = flag] ELSE s

connect_always(s) ==
    IF ~Ok(s) THEN s
    ELSE SetConnected(Sleep(DriverCall(s, "run", 0)), TRUE)

connect(s) ==
    IF ~Ok(s) \/ s.conn THEN s
    ELSE SetConnected(Sleep(DriverCall(s, "run", 0)), TRUE)

disconnect(s) ==
    IF ~Ok(s) \/ ~s.conn THEN s
    ELSE SetConnected(Sleep(DriverCall(s, "disconnect", 0)), FALSE)

\* finally: await self.device.disconnect()
FinallyDisconnect(s) == AfterFinally(s, disconnect(Caught(s)))

\* except Exception: raise RuntimeError("Failed to read device status")
get_status_result(t) ==
    IF Ok(t) THEN [t EXCEPT !.ret = t.cache]
    ELSE [t EXCEPT !.exc = "RuntimeError", !.msg = "Failed to read device status"]

get_status_body(s) == get_status_result(Sleep(DriverCall(s, "ask_stats", 0)))

get_fast_status_result(t) == IF Ok(t) THEN [t EXCEPT !.ret = t.cache] ELSE t

get_fast_status_body(s) == get_fast_status_result(Sleep(DriverCall(s, "ask_stats", 0)))

start_walking_body(s) == Sleep(DriverCall(s, "start_belt", 0))

stop_walking_body(s) == Sleep(DriverCall(s, "stop_belt", 0))

set_mode_manual_body(s) == Sleep(DriverCall(s, "switch_mode", ManualMode))

\* set_speed(speed): the speed is the request's
set_speed_body(s) == Sleep(DriverCall(s, "change_speed", s.in.speed))

\* preferences_to_set, in the order of the list
PrefNames == <<"max_speed", "start_speed", "sensitivity", "child_lock", "units">>

\* controller.set_pref_int(pref_key, pref_value) for the field numbered i
PrefCmd(i) == "set_pref_int " \o PrefNames[i]

PrefError(i) ==
    "Failed to set " \o PrefNames[i] \o " after " \o ToString(PrefRetries) \o " attempts"

\* the two loops: for each field, for attempt in range(max_retries); a write
\* that returns breaks to the next field, a failed one is tried again at
\* once, and the last failed attempt raises
RECURSIVE set_pref(_, _, _)
RECURSIVE pref_tried(_, _, _)
pref_tried(t, i, attempt) ==
    IF Ok(t) THEN set_pref(t, i + 1, 0)
    ELSE IF attempt = PrefRetries - 1 THEN Raise(Caught(t), "Exception", PrefError(i))
    ELSE set_pref(Caught(t), i, attempt + 1)

set_pref(s, i, attempt) ==
    IF i > Len(PrefNames) THEN s
    ELSE pref_tried(Sleep(DriverCall(s, PrefCmd(i), 0)), i, attempt)

update_preferences_body(s) == set_pref(s, 1, 0)

\* await func(self, *args, **kwargs) for the decorated method func
func_call(func, s) ==
    CASE func = "get_status" -> get_status_body(s)
      [] func = "get_fast_status" -> get_fast_status_body(s)
      [] func = "start_walking" -> start_walking_body(s)
      [] func = "stop_walking" -> stop_walking_body(s)
      [] func = "set_mode" -> set_mode_manual_body(s)
      [] func = "set_speed" -> set_speed_body(s)
      [] func = "update_preferences" -> update_preferences_body(s)

wrapper_finally_always(s2, was_connected, disconnect_after) == FinallyDisconnect(s2)

\* the finally clause of the wrapper
wrapper_finally(s2, was_connected, disconnect_after) ==
    IF ~was_connected \/ disconnect_after THEN FinallyDisconnect(s2) ELSE s2

\* the try clause of the wrapper; a failed connect never reaches it
wrapper_try(s1, was_connected, disconnect_after, func) ==
    IF ~Ok(s1) THEN s1
    ELSE wrapper_finally(func_call(func, s1), was_connected, disconnect_after)

\* the decorator: connect unless connected, run the method, and in the finally
\* clause disconnect when this call opened the link or disconnect_after is set
ensure_connection(s, disconnect_after, func) ==
    IF ~Ok(s) THEN s
    ELSE wrapper_try(IF s.conn THEN s ELSE connect(s), s.conn, disconnect_after, func)

get_status(s) == ensure_connection(s, FALSE, "get_status")

get_fast_status(s) == ensure_connection(s, FALSE, "get_fast_status")

start_walking(s) == ensure_connection(s, FALSE, "start_walking")

stop_walking(s) == ensure_connection(s, TRUE, "stop_walking")

set_mode_manual(s) == ensure_connection(s, TRUE, "set_mode")

set_speed(s) == ensure_connection(s, TRUE, "set_speed")

update_preferences(s) == ensure_connection(s, TRUE, "update_preferences")


\* ---------------------------------------------------------------- the store
OpenIds(r) == { i \in DOMAIN r : r[i].end_time = NULL }

NewRow(start) ==
    [start_time |-> start, end_time |-> NULL, steps |-> 0, distance |-> 0,
     duration_seconds |-> 0, calories |-> 0, notes |-> ""]

\* DatabaseService.execute_query: the statement raises when the fault plan
\* says so and is committed otherwise
execute_query(s, q) ==
    IF ~Ok(s) THEN s
    ELSE IF Hits(s.in.db, s.nq + 1)
    THEN Raise(Log([s EXCEPT !.nq = @ + 1], q, "fail"), "DatabaseError", "database error")
    ELSE Log([s EXCEPT !.nq = @ + 1], q, "ok")

\* the row the INSERT ... RETURNING gives back: ret is the new id
Inserted(t) ==
    IF ~Ok(t) THEN t
    ELSE [t EXCEPT !.rows = [i \in DOMAIN @ \cup {t.nextId} |->
                                IF i = t.nextId THEN NewRow(t.now) ELSE @[i]],
                   !.nextId = @ + 1,
                   !.ret = t.nextId]

\* INSERT INTO exercise_sessions ... RETURNING
InsertSession(s) == Inserted(execute_query(s, "INSERT"))

\* the open row with the latest start_time (ORDER BY start_time DESC LIMIT 1);
\* among rows that started together the one inserted last
Latest(r, ids) ==
    CHOOSE i \in ids : \A j \in ids :
        \/ r[j].start_time < r[i].start_time
        \/ r[j].start_time = r[i].start_time /\ j <= i

RECURSIVE ByStartDesc(_, _)
ByStartDesc(r, ids) ==
    IF ids = {} THEN <<>>
    ELSE <<Latest(r, ids)>> \o ByStartDesc(r, ids \ {Latest(r, ids)})


\* -------------------------------------------------- ExerciseSecurityService
MsgUnsaved == "Unsaved session data found. Please check history and confirm before starting new session."
MsgCleanupFailed == "State cleanup failed"

Min(a, b) == IF a <= b THEN a ELSE b
Max(a, b) == IF a >= b THEN a ELSE b

\* the comparison with the threshold taken inclusively
StaleIdsInclusive(r, t) == { i \in OpenIds(r) : r[i].start_time <= t - StaleThreshold }

\* WHERE end_time IS NULL AND start_time < NOW() - INTERVAL '3 hours'
StaleIds(r, t) == { i \in OpenIds(r) : r[i].start_time < t - StaleThreshold }

\* the rows the query returns, ORDER BY start_time DESC
StaleFound(t) ==
    IF Ok(t) THEN [t EXCEPT !.ret = ByStartDesc(t.rows, StaleIds(t.rows, t.now))] ELSE t

_check_incomplete_sessions(s) == StaleFound(execute_query(s, "SELECT stale"))

\* the time of the cleanup taken as the end of the session
EstimatedEndNow(row, t) == t

\* estimated_end = min(start_time + timedelta(minutes=30), now)
EstimatedEnd(row, t) == Min(row.start_time + AutoCloseAfter, t)

\* the UPDATE of one stale session
AutoClose(row, t) ==
    [row EXCEPT !.end_time = EstimatedEnd(row, t),
                !.notes = "Auto-closed by system - Session was incomplete",
                !.duration_seconds = (EstimatedEnd(row, t) - row.start_time) * TickSeconds]

AutoClosed(t, id) == IF ~Ok(t) THEN t ELSE [t EXCEPT !.rows[id] = AutoClose(@, t.now)]

RECURSIVE CloseEach(_, _)
CloseEach(s, sessions) ==
    IF ~Ok(s) \/ sessions = <<>> THEN s
    ELSE CloseEach(AutoClosed(execute_query(s, "UPDATE auto-close"), Head(sessions)),
                   Tail(sessions))

\* the loop runs inside try/except: a store error ends the loop and is swallowed
_cleanup_incomplete_sessions(s, sessions) == Caught(CloseEach(s, sessions))

NoStats == [read |-> FALSE, stats |-> ZeroCounters]

\* stats = controller.last_status; None when it is empty or anything raised
LastStatusRead(a) ==
    IF ~Ok(a) THEN [Caught(a) EXCEPT !.ret = NoStats]
    ELSE IF a.ctl = NoRecord THEN [a EXCEPT !.ret = NoStats]
    ELSE [a EXCEPT !.ret = [read |-> TRUE,
                            stats |-> Counters(a.ctl.dist, a.ctl.steps, a.ctl.time)]]

\* connect, manual mode, ask_stats, then read Controller.last_status; any
\* exception gives None; the finally clause disconnects
_get_last_device_stats(s) ==
    IF ~Ok(s) THEN s
    ELSE disconnect(LastStatusRead(
            Sleep(DriverCall(Sleep(DriverCall(connect(s), "switch_mode", ManualMode)),
                             "ask_stats", 0))))

\* the thresholds taken inclusively
_has_significant_data_inclusive(stats) ==
    \/ stats.dist >= SignificantDist
    \/ stats.steps >= SignificantSteps
    \/ stats.time >= SignificantTime

_has_significant_data(stats) ==
    \/ stats.dist > SignificantDist
    \/ stats.steps > SignificantSteps
    \/ stats.time > SignificantTime

\* for mode in [1]: switch_mode(mode); the finally clause disconnects
_reset_device_state(s) ==
    IF ~Ok(s) THEN s
    ELSE FinallyDisconnect(Sleep(DriverCall(connect(s), "switch_mode", ManualMode)))

Verdict(s, ready, msg, last) ==
    [Caught(s) EXCEPT !.pre = [called |-> TRUE, ready |-> ready, msg |-> msg,
                               read |-> last.read, stats |-> last.stats,
                               seen |-> s.pre.seen]]

\* current_status = await device_service.get_status(): the belt state the
\* preflight decides on
Observed(s1) ==
    IF Ok(s1) THEN [s1 EXCEPT !.pre.seen = s1.ret.belt_state] ELSE s1

ForceStopUnlessIdle(s1) ==
    IF Ok(s1) /\ s1.ret.belt_state \notin {"idle"}
    THEN Sleep(stop_walking(Observed(s1)))
    ELSE Observed(s1)

\* 2. force stop if the belt is not reported idle or standby
ForceStop(s1) ==
    IF Ok(s1) /\ s1.ret.belt_state \notin {"idle", "standby"}
    THEN Sleep(stop_walking(Observed(s1)))
    ELSE Observed(s1)

\* 3. auto-close the stale sessions, if any
CleanupIfAny(s3) ==
    IF Ok(s3) /\ s3.ret # <<>> THEN _cleanup_incomplete_sessions(s3, s3.ret) ELSE s3

\* last_stats, None when the steps before raised
LastStats(s5) == IF Ok(s5) THEN s5.ret ELSE NoStats

\* if last_stats and self._has_significant_data(last_stats)
Unsaved(last) == last.read /\ _has_significant_data(last.stats)

\* 5. the reset, not reached when unsaved data was found
ResetUnlessUnsaved(s5) ==
    IF Unsaved(LastStats(s5)) THEN s5 ELSE _reset_device_state(s5)

\* the three return statements
Decide(s6, last) ==
    IF ~Ok(s6) THEN Verdict(s6, FALSE, MsgCleanupFailed, last)
    ELSE IF Unsaved(last) THEN Verdict(s6, FALSE, MsgUnsaved, last)
    ELSE Verdict(s6, TRUE, "", last)

\* 4. and 5.
CheckMemory(s5) == Decide(ResetUnlessUnsaved(s5), LastStats(s5))

check_and_clean_state(s) ==
    CheckMemory(_get_last_device_stats(CleanupIfAny(_check_incomplete_sessions(
        ForceStop(get_status(s))))))


\* ----------------------------------------------------------------- helpers
UserWeight == 80
DefaultWeight == 70

\* Python's round(): to the nearest integer, ties to the even one
RoundHalfEven(n, d) ==
    IF 2 * (n % d) < d THEN n \div d
    ELSE IF 2 * (n % d) > d THEN (n \div d) + 1
    ELSE IF (n \div d) % 2 = 0 THEN n \div d ELSE (n \div d) + 1

\* MET tier, times ten: speed_kph = (distance / 100) / (seconds / 3600)
MetTimesTen(distance, seconds) ==
    IF 360 * distance < 32 * seconds THEN 20
    ELSE IF 360 * distance < 48 * seconds THEN 30
    ELSE IF 360 * distance < 64 * seconds THEN 35
    ELSE 43

\* calculate_calories with duration_minutes = seconds / 60; the division by
\* duration_minutes / 60 raises ZeroDivisionError when the duration is zero;
\* weight = weight_kg or 70
calculate_calories(s, distance, seconds, weight) ==
    IF ~Ok(s) THEN s
    ELSE IF seconds = 0 THEN Raise(s, "ZeroDivisionError", "float division by zero")
    ELSE [s EXCEPT !.ret = RoundHalfEven(MetTimesTen(distance, seconds)
                                             * (IF weight = None THEN DefaultWeight ELSE weight)
                                             * seconds,
                                         36000)]

\* ---------------------------------------------------------- ExerciseService
MsgNoActive == "No active session found"

MetricsOf(status) ==
    [set |-> TRUE, distance |-> status.distance, duration |-> status.time,
     steps |-> status.steps, speed |-> status.speed]

\* for attempt in range(max_retries): the status read, kept as the last known
\* metrics; after the last failed attempt the last known metrics are returned
RECURSIVE MetricsAttempt(_, _)
RECURSIVE MetricsTried(_, _)
MetricsTried(t, attempt) ==
    IF Ok(t) THEN [t EXCEPT !.ldm = MetricsOf(t.ret), !.ret = MetricsOf(t.ret)]
    ELSE MetricsAttempt(IF attempt < MetricsRetries - 1
                        THEN Pause(Caught(t), "retry_sleep")
                        ELSE Caught(t),
                        attempt + 1)

MetricsAttempt(s, attempt) ==
    IF attempt = MetricsRetries THEN [s EXCEPT !.ret = s.ldm]
    ELSE MetricsTried(get_status(s), attempt)

\* one status read, whose exception is not caught
_get_device_metrics_once(s) == get_status(s)

_get_device_metrics(s) == IF Ok(s) THEN MetricsAttempt(s, 0) ELSE s

\* raise: the handler's own outcome does not replace the exception of s
Reraise(h, s) == [h EXCEPT !.exc = s.exc, !.msg = s.msg]

\* the exception of the stop attempt, if any, is what the caller gets
StopAndRaiseLast(s) == IF Ok(s) THEN s ELSE stop_walking(Caught(s))

\* except Exception: try stop_walking, swallow what it raises, re-raise
StopAndReraise(s) == IF Ok(s) THEN s ELSE Reraise(stop_walking(Caught(s)), s)

\* if not is_ready: raise ValueError(error_message)
RequireReady(s1) == IF ~s1.pre.ready THEN Raise(s1, "ValueError", s1.pre.msg) ELSE s1

\* self.current_session = ExerciseSession.from_db_row(result[0])
HoldSession(s4) ==
    IF Ok(s4) THEN [s4 EXCEPT !.cur = [id |-> s4.ret, start_time |-> s4.now]] ELSE s4

\* the verdict of the preflight check is not looked at
start_session_unchecked(s) ==
    StopAndReraise(HoldSession(InsertSession(start_walking(check_and_clean_state(s)))))

start_session(s) ==
    StopAndReraise(HoldSession(InsertSession(start_walking(
        RequireReady(check_and_clean_state(s))))))

\* seconds between the session's start_time and now
WallSeconds(s, start) ==
    IF s.now > start THEN (s.now - start) * TickSeconds
    ELSE IF s.in.instant THEN 0 ELSE 1

AdoptRow(t, i) == [t EXCEPT !.cur = [id |-> i, start_time |-> t.rows[i].start_time]]

\* if result: adopt it; else: raise ValueError("No active session found")
Adopted(t) ==
    IF ~Ok(t) THEN t
    ELSE IF OpenIds(t.rows) # {} THEN AdoptRow(t, Latest(t.rows, OpenIds(t.rows)))
    ELSE Raise(t, "ValueError", MsgNoActive)

\* the lookup without WHERE end_time IS NULL
AdoptLatestSession(s) ==
    IF s.cur # NoSession THEN s
    ELSE LET t == execute_query(s, "SELECT open")
         IN IF ~Ok(t) THEN t
            ELSE IF DOMAIN t.rows # {} THEN AdoptRow(t, Latest(t.rows, DOMAIN t.rows))
            ELSE Raise(t, "ValueError", MsgNoActive)

\* step 1: adopt the most recent open row when nothing is held in memory
AdoptOpenSession(s) ==
    IF s.cur # NoSession THEN s ELSE Adopted(execute_query(s, "SELECT open"))

\* step 5: UPDATE ... WHERE id = %s RETURNING *
CloseRow(row, t, metrics, duration, calories) ==
    [row EXCEPT !.end_time = t, !.steps = metrics.steps, !.distance = metrics.distance,
                !.duration_seconds = duration, !.calories = calories]

\* if not result: raise; else clear the pointer and return the closed session
end_session_close(s6, metrics, duration, calories) ==
    IF ~Ok(s6) THEN s6
    ELSE IF s6.cur.id \notin DOMAIN s6.rows
    THEN Raise(s6, "Exception", "Failed to update session in database")
    ELSE [s6 EXCEPT !.rows[s6.cur.id] = CloseRow(@, s6.now, metrics, duration, calories),
                    !.cur = NoSession,
                    !.ret = s6.cur.id]

\* 5. the UPDATE, with the calories just computed
end_session_update(s5, metrics, duration) ==
    end_session_close(execute_query(s5, "UPDATE end"), metrics, duration, s5.ret)

\* 4. the user's weight, then calculate_calories
end_session_calories(s4, metrics, duration) ==
    end_session_update(calculate_calories(s4, metrics.distance, duration, UserWeight),
                       metrics, duration)

\* 3. duration = max(device duration, wall-clock seconds since start_time)
end_session_duration(s3, metrics) ==
    IF ~Ok(s3) THEN s3
    ELSE end_session_calories(execute_query(s3, "SELECT weight"), metrics,
                              Max(metrics.duration, WallSeconds(s3, s3.cur.start_time)))

\* the session is closed whether or not the belt could be stopped
end_session_stop_anyway(s2) ==
    IF ~Ok(s2) THEN s2 ELSE end_session_duration(Caught(stop_walking(s2)), s2.ret)

\* 2. the final metrics are kept, then the belt is stopped
end_session_stop(s2) == IF ~Ok(s2) THEN s2 ELSE end_session_duration(stop_walking(s2), s2.ret)

end_session(s) ==
    StopAndReraise(end_session_stop(_get_device_metrics(AdoptOpenSession(s))))

\* ---------------------------------------------------------- exercise routes
Reply(s, code, m, id) == [s EXCEPT !.ret = [http |-> code, msg |-> m, session |-> id],
                                   !.exc = NoExc, !.msg = ""]

\* jsonify(...) 200, or the except clause's 500
start_session_reply(t) ==
    IF Ok(t) THEN Reply(t, 200, "Session started successfully", t.cur.id)
    ELSE Reply(t, 500, t.msg, None)

\* the route without its check of exercise_service.current_session
start_session_stream_unguarded(s) == start_session_reply(start_session(s))

start_session_stream(s) ==
    IF s.cur # NoSession THEN Reply(s, 409, "An active session already exists", None)
    ELSE start_session_reply(start_session(s))

stop_session_reply(t) ==
    IF Ok(t) THEN Reply(t, 200, "Session ended successfully", t.ret)
    ELSE Reply(t, 500, t.msg, None)

stop_session(s) ==
    IF s.cur = NoSession THEN Reply(s, 404, MsgNoActive, None)
    ELSE stop_session_reply(end_session(s))


\* --------------------------------------------------------- treadmill routes
\* connect, stop_belt, sleep, switch_mode(2), and the route returns
setup_configure(t) ==
    DriverCall(Sleep(DriverCall(connect(t), "stop_belt", 0)), "switch_mode", StandbyMode)

setup_reply(t) ==
    IF Ok(t) THEN Reply(t, 200, "Treadmill ready for use", None)
    ELSE Reply(t, 500, t.msg, None)

\* if not is_ready: 400 with the message of the check
setup_checked(t) ==
    IF ~t.pre.ready THEN Reply(t, 400, t.pre.msg, None)
    ELSE setup_reply(setup_configure(t))

\* POST /setup
setup_treadmill(s) == setup_checked(check_and_clean_state(s))

\* if not device_service.is_connected: connect, sleep
stop_treadmill_connect(s) == IF s.conn THEN s ELSE Sleep(connect(s))

\* stop_belt, ask_stats, switch_mode(2), each followed by the sleep; disconnect
stop_treadmill_body(s) ==
    disconnect(Sleep(DriverCall(Sleep(DriverCall(Sleep(DriverCall(
        stop_treadmill_connect(s), "stop_belt", 0)), "ask_stats", 0)),
        "switch_mode", StandbyMode)))

\* except: if connected, stop_belt and disconnect, whatever they raise is logged
stop_treadmill_cleanup(t) ==
    IF Ok(t) THEN t
    ELSE IF t.conn THEN Reraise(disconnect(DriverCall(Caught(t), "stop_belt", 0)), t)
    ELSE t

stop_treadmill_reply(t) ==
    IF Ok(t) THEN Reply(t, 200, "Treadmill stopped", None)
    ELSE Reply(t, 500, t.msg, None)

\* POST /stop of the treadmill blueprint
stop_treadmill(s) == stop_treadmill_reply(stop_treadmill_cleanup(stop_treadmill_body(s)))

\* if device_service.is_connected: disconnect, sleep(1)
start_treadmill_clean(s) == IF s.conn THEN Pause(disconnect(s), "settle") ELSE s

\* connect, switch_mode(1), start_belt, ask_stats, each followed by the sleep
start_treadmill_body(s) ==
    Sleep(DriverCall(Sleep(DriverCall(Sleep(DriverCall(Sleep(connect(
        start_treadmill_clean(s))), "switch_mode", ManualMode)), "start_belt", 0)),
        "ask_stats", 0))

\* except: stop_belt and disconnect, whatever they raise is passed over
start_treadmill_cleanup(t) ==
    IF Ok(t) THEN t
    ELSE Reraise(disconnect(DriverCall(Caught(t), "stop_belt", 0)), t)

start_treadmill_reply(t) ==
    IF Ok(t) THEN Reply(t, 200, "Treadmill started", None)
    ELSE Reply(t, 500, t.msg, None)

\* POST /start of the treadmill blueprint
start_treadmill(s) ==
    start_treadmill_reply(start_treadmill_cleanup(start_treadmill_body(s)))


\* ---------------------------------------------------- ExerciseStreamService
\* for attempt in range(MAX_RECONNECT_ATTEMPTS): connect, manual mode, start
RECURSIVE StreamConnect(_, _)
RECURSIVE StreamConnected(_, _)
StreamConnected(t, attempt) ==
    IF Ok(t) THEN [t EXCEPT !.stream.active = TRUE]
    ELSE IF attempt < StreamReconnectAttempts - 1
    THEN StreamConnect(Pause(Caught(t), "reconnect_sleep"), attempt + 1)
    ELSE Raise(Caught(t), "Exception", "Failed to connect after multiple attempts")

StreamConnect(s, attempt) ==
    StreamConnected(start_walking(set_mode_manual(connect(s))), attempt)

\* the DELETE without its WHERE clause
_cleanup_every_session(s, session_id) ==
    LET t == execute_query(s, "DELETE")
    IN IF Ok(t) THEN [t EXCEPT !.rows = [i \in {} |-> @[i]]]
       ELSE Caught(t)

\* DELETE FROM exercise_sessions WHERE id = %s; a store error is swallowed
_cleanup_failed_session(s, session_id) ==
    LET t == execute_query(s, "DELETE")
    IN IF Ok(t) THEN [t EXCEPT !.rows = [i \in DOMAIN @ \ {session_id} |-> @[i]]]
       ELSE Caught(t)

\* self.current_session = ExerciseSession.from_db_row(result[0])
StreamHold(s1) ==
    IF Ok(s1) THEN [s1 EXCEPT !.stream.current_session = [id |-> s1.ret, start_time |-> s1.now]]
    ELSE s1

\* self._stream_task = asyncio.create_task(...); return self.current_session
StreamTask(s3) ==
    IF Ok(s3) THEN [s3 EXCEPT !.stream.task = "running", !.ret = s3.stream.current_session.id]
    ELSE s3

\* if self.current_session: await self._cleanup_failed_session(...)
StreamCleanup(h) ==
    IF h.stream.current_session # NoSession
    THEN _cleanup_failed_session(h, h.stream.current_session.id)
    ELSE h

\* except Exception: _session_active = False, cleanup, raise
StreamStartFailed(s4) ==
    IF Ok(s4) THEN s4
    ELSE Reraise(StreamCleanup([Caught(s4) EXCEPT !.stream.active = FALSE]), s4)

\* the connection loop, reached when the INSERT returned a row
StreamConnectLoop(s2) == IF Ok(s2) THEN StreamConnect(s2, 0) ELSE s2

stream_start_session(s) ==
    StreamStartFailed(StreamTask(StreamConnectLoop(StreamHold(InsertSession(s)))))

\* UPDATE ... SET steps, distance_km, duration_seconds ... WHERE id = %s
StreamUpdated(t, id, m) ==
    IF ~Ok(t) THEN Caught(t)
    ELSE IF id \notin DOMAIN t.rows THEN t
    ELSE [t EXCEPT !.rows[id] = [@ EXCEPT !.steps = m.steps, !.distance = m.distance,
                                          !.duration_seconds = m.duration]]

_update_session_in_db(s) ==
    IF ~Ok(s) \/ ~s.stream.last_metrics.set \/ s.stream.current_session = NoSession THEN s
    ELSE StreamUpdated(execute_query(s, "UPDATE metrics"), s.stream.current_session.id,
                       s.stream.last_metrics)

\* for attempt in range(MAX_RECONNECT_ATTEMPTS): disconnect, sleep, connect
RECURSIVE ReconnectAttempt(_, _)
RECURSIVE Reconnected(_, _)
Reconnected(t, attempt) == IF Ok(t) THEN t ELSE ReconnectAttempt(Caught(t), attempt + 1)

ReconnectAttempt(s, attempt) ==
    IF attempt = StreamReconnectAttempts
    THEN Raise([s EXCEPT !.stream.active = FALSE], "Exception", "Failed to reconnect to device")
    ELSE Reconnected(connect(Pause(disconnect(s), "reconnect_sleep")), attempt)

_attempt_reconnect(s) == ReconnectAttempt(s, 0)

\* self._last_metrics = StreamMetrics(...)
PollRead(s1) ==
    IF Ok(s1) THEN [s1 EXCEPT !.stream.last_metrics = MetricsOf(s1.ret)] ELSE s1

\* except Exception as e: if "Unreachable" in str(e): await self._attempt_reconnect()
PollRecover(s3) ==
    IF Ok(s3) THEN s3
    ELSE IF s3.in.dev.kind = "from" THEN _attempt_reconnect(Caught(s3))
    ELSE Caught(s3)

\* the sleep before the next iteration, or the exception that ends the task
PollNext(s4) ==
    IF Ok(s4) THEN Pause(s4, "poll_sleep")
    ELSE [s4 EXCEPT !.stream.active = FALSE, !.stream.task = "failed"]

\* one iteration of the while loop of _stream_session_data; an error whose
\* text says Unreachable (the link is gone for good) starts a reconnect, and
\* an exception that leaves the loop ends the task
stream_poll(s) ==
    PollNext(PollRecover(_update_session_in_db(PollRead(get_fast_status(s)))))

\* if not self.current_session: raise ValueError; self._session_active = False
StreamEndBegin(s) ==
    IF s.stream.current_session = NoSession THEN Raise(s, "ValueError", MsgNoActive)
    ELSE [s EXCEPT !.stream.active = FALSE]

\* cancel the stream task and wait for it: a task that failed re-raises here
StreamEndTask(s1) ==
    IF ~Ok(s1) THEN s1
    ELSE IF s1.stream.task = "failed"
    THEN Raise(s1, "Exception", "Failed to reconnect to device")
    ELSE IF s1.stream.task = "running" THEN [s1 EXCEPT !.stream.task = "done"]
    ELSE s1

\* if self._last_metrics: ... else raise
StreamEndMetrics(s3) ==
    IF Ok(s3) /\ ~s3.stream.last_metrics.set
    THEN Raise(s3, "Exception", "Failed to update final session data")
    ELSE s3

StreamEndCalories(s5) ==
    IF Ok(s5)
    THEN calculate_calories(s5, s5.stream.last_metrics.distance,
                            s5.stream.last_metrics.duration, UserWeight)
    ELSE s5

\* if result: clear the pointer and the metrics, return the closed session
StreamEndClose(s7, id, m, calories) ==
    IF ~Ok(s7) THEN s7
    ELSE IF id \notin DOMAIN s7.rows
    THEN Raise(s7, "Exception", "Failed to update final session data")
    ELSE [s7 EXCEPT !.rows[id] = CloseRow(@, s7.now, m, m.duration, calories),
                    !.stream.current_session = NoSession,
                    !.stream.last_metrics = NoMetrics,
                    !.ret = id]

StreamEndUpdate(s6) ==
    StreamEndClose(execute_query(s6, "UPDATE end"), s6.stream.current_session.id,
                   s6.stream.last_metrics, s6.ret)

stream_end_session(s) ==
    StreamEndUpdate(StreamEndCalories(execute_query(
        StreamEndMetrics(stop_walking(StreamEndTask(StreamEndBegin(s)))), "SELECT weight")))

\* ---------------------------------------------------------- SessionsService
SessionsHold(t) == IF Ok(t) THEN [t EXCEPT !.sid = t.ret] ELSE t

sessions_start_session(s) ==
    IF s.sid # None THEN Raise(s, "ValueError", "A session is already active")
    ELSE SessionsHold(InsertSession(s))

SessionsClosed(t) ==
    IF ~Ok(t) THEN t
    ELSE IF t.sid \notin DOMAIN t.rows THEN Raise(t, "Exception", "Failed to end session")
    ELSE [t EXCEPT !.rows[t.sid] = [@ EXCEPT !.end_time = t.now],
                   !.sid = None,
                   !.ret = t.sid]

\* UPDATE exercise_sessions SET end_time = NOW() WHERE id = %s RETURNING *
sessions_end_session(s) ==
    IF s.sid = None THEN Raise(s, "ValueError", "No active session")
    ELSE SessionsClosed(execute_query(s, "UPDATE end"))


\* ------------------------------------------------------------------ actions
NoResult == [exc |-> NoExc, msg |-> "", session |-> None, http |-> 0]

TypeOK ==
    /\ now \in 0..MaxTime
    /\ nextId \in 1..(MaxRows + 1)
    /\ DOMAIN rows \subseteq 1..MaxRows
    /\ is_connected \in BOOLEAN
    /\ dev.c \in CounterSamples

Init ==
    /\ now = 0
    /\ rows = << >>
    /\ nextId = 1
    /\ dev = InitDevice
    /\ is_connected = FALSE
    /\ last_status = InitStatus
    /\ ctl_last_status = NoRecord
    /\ current_session = NoSession
    /\ last_device_metrics = NoMetrics
    /\ stream = InitStream
    /\ active_session_id = None
    /\ op = "idle"
    /\ result = NoResult
    /\ preflight = NoPreflight
    /\ trace = << >>
    /\ sse = NoStream
    /\ metrics_service = InitMetricsService
    /\ flows = NoFlows

\* the handler has run to its end on frame s: the objects take the frame's values
Finish(name, s, res) ==
    /\ op' = name
    /\ result' = res
    /\ preflight' = s.pre
    /\ trace' = s.trace
    /\ rows' = s.rows
    /\ nextId' = s.nextId
    /\ dev' = s.dev
    /\ is_connected' = s.conn
    /\ last_status' = s.cache
    /\ ctl_last_status' = s.ctl
    /\ current_session' = s.cur
    /\ last_device_metrics' = s.ldm
    /\ stream' = s.stream
    /\ active_session_id' = s.sid
    /\ now' = now
    /\ sse' = sse
    /\ metrics_service' = metrics_service
    /\ flows' = flows

\* what a service method gave its caller: the session id, or the exception
Outcome(s) ==
    [exc |-> s.exc, msg |-> s.msg, session |-> IF Ok(s) THEN s.ret ELSE None, http |-> 0]

\* what a route gave the client
Answer(s) == [exc |-> NoExc, msg |-> s.ret.msg, session |-> s.ret.session, http |-> s.ret.http]

Returned(name, s) == Finish(name, s, Outcome(s))

Answered(name, s) == Finish(name, s, Answer(s))

\* a server that takes a request while it is serving another one
Threaded == TRUE

\* the server serves one request at a time (processes=1, threaded=False):
\* it takes the next one when the reply to the last one has been delivered
Idle == op = "idle"

CanInsert == Idle /\ nextId <= MaxRows

StartInputs == { in \in Inputs : ~in.instant }

\* POST /session/start
StartSessionRoute ==
    /\ CanInsert
    /\ \E in \in StartInputs :
          Answered("start_session_stream", start_session_stream(Frame(in)))

\* POST /session/stop
StopSessionRoute ==
    /\ Idle
    /\ \E in \in Inputs : Answered("stop_session", stop_session(Frame(in)))

\* ExerciseService.start_session called on the service itself
StartSession ==
    /\ CanInsert
    /\ \E in \in StartInputs : Returned("start_session", start_session(Frame(in)))

\* ExerciseService.end_session called on the service itself
EndSession ==
    /\ Idle
    /\ \E in \in Inputs : Returned("end_session", end_session(Frame(in)))

\* ExerciseSecurityService.check_and_clean_state called by the setup route or
\* the initialization service
CheckAndCleanState ==
    /\ Idle
    /\ \E in \in StartInputs :
          Finish("check_and_clean_state", check_and_clean_state(Frame(in)), NoResult)

StreamStartSession ==
    /\ CanInsert
    /\ \E in \in StartInputs :
          Returned("stream_start_session", stream_start_session(Frame(in)))

StreamPoll ==
    /\ Idle
    /\ stream.active
    /\ stream.task = "running"
    /\ \E in \in StartInputs : Finish("stream_poll", stream_poll(Frame(in)), NoResult)

StreamEndSession ==
    /\ Idle
    /\ \E in \in StartInputs :
          Returned("stream_end_session", stream_end_session(Frame(in)))

SessionsStartSession ==
    /\ CanInsert
    /\ \E in \in StartInputs :
          Returned("sessions_start_session", sessions_start_session(Frame(in)))

SessionsEndSession ==
    /\ Idle
    /\ \E in \in StartInputs :
          Returned("sessions_end_session", sessions_end_session(Frame(in)))

\* the reply has been delivered, to its last event when it is a stream: the
\* server waits for the next request
Return ==
    /\ ~Idle
    /\ sse.pc \in {"none", "closed"}
    /\ op' = "idle"
    /\ result' = NoResult
    /\ preflight' = NoPreflight
    /\ trace' = << >>
    /\ sse' = NoStream
    /\ UNCHANGED <<metrics_service, flows, now, rows, nextId, dev, is_connected, last_status, ctl_last_status,
                   current_session, last_device_metrics, stream, active_session_id>>

\* the server process is restarted: every module-level singleton is rebuilt,
\* the store and the treadmill keep their state
Restart ==
    /\ Idle
    /\ \/ is_connected \/ current_session # NoSession \/ stream # InitStream
       \/ active_session_id # None \/ last_status # InitStatus
    /\ is_connected' = FALSE
    /\ last_status' = InitStatus
    /\ ctl_last_status' = NoRecord
    /\ current_session' = NoSession
    /\ last_device_metrics' = NoMetrics
    /\ stream' = InitStream
    /\ active_session_id' = None
    /\ metrics_service' = InitMetricsService
    /\ flows' = NoFlows
    /\ UNCHANGED <<now, rows, nextId, dev, op, result, preflight, trace>>
    /\ sse' = NoStream

\* hours pass: exactly the staleness threshold, or half an hour more
Tick ==
    /\ Idle
    /\ \E d \in {StaleThreshold, StaleThreshold + 1} :
          /\ now + d <= MaxTime
          /\ now' = now + d
    /\ UNCHANGED <<sse, metrics_service, flows, rows, nextId, dev, is_connected, last_status, ctl_last_status,
                   current_session, last_device_metrics, stream, active_session_id,
                   op, result, preflight, trace>>

\* somebody walks on the treadmill: its resident counters grow
Walk ==
    /\ Idle
    /\ \E c \in CounterSamples : Grown(dev.c, c) /\ dev' = [dev EXCEPT !.c = c]
    /\ UNCHANGED <<sse, metrics_service, flows, now, rows, nextId, is_connected, last_status, ctl_last_status,
                   current_session, last_device_metrics, stream, active_session_id,
                   op, result, preflight, trace>>

\* the session and preflight services called directly, over hours
Next ==
    \/ StartSession
    \/ EndSession
    \/ CheckAndCleanState
    \/ Return
    \/ Restart
    \/ Tick

Spec == Init /\ [][Next]_vars

\* the exercise routes
NextRoutes ==
    \/ StartSessionRoute
    \/ StopSessionRoute
    \/ Return
    \/ Restart
    \/ Tick

SpecRoutes == Init /\ [][NextRoutes]_vars

\* the preflight validator and the start of a session while somebody walks
NextPreflight ==
    \/ CheckAndCleanState
    \/ StartSession
    \/ Walk
    \/ Return
    \/ Restart

SpecPreflight == Init /\ [][NextPreflight]_vars

\* the two other session services, sharing the store and the treadmill
NextServices ==
    \/ StreamStartSession
    \/ StreamPoll
    \/ StreamEndSession
    \/ SessionsStartSession
    \/ SessionsEndSession
    \/ Return
    \/ Restart

SpecServices == Init /\ [][NextServices]_vars

\* ------------------------------------------------- the device service alone
Speeds == {20, 30}

\* the inputs of a device operation: a driver fault plan, whether the
\* notification arrives in time, and the speed asked for
DeviceInputs ==
    [dev : Plans(MaxDevCall) \cup Bursts(MaxDevCall), db : {NoPlan},
     notify : BOOLEAN, instant : {FALSE}, speed : {20}]

SpeedInputs ==
    [dev : Plans(MaxDevCall), db : {NoPlan}, notify : {TRUE}, instant : {FALSE},
     speed : Speeds]

StatusReturnedLive(s) ==
    [exc |-> s.exc, msg |-> s.msg,
     session |-> IF Ok(s) THEN [ref |-> "cache", value |-> s.ret]
                 ELSE [ref |-> "none", value |-> s.cache],
     http |-> 0]

\* what a status method gave its caller: the dictionary, and whether it is a
\* copy of the cache or the cache object itself (return self._last_status.copy())
StatusReturned(s) ==
    [exc |-> s.exc, msg |-> s.msg,
     session |-> IF Ok(s) THEN [ref |-> "copy", value |-> s.ret]
                 ELSE [ref |-> "none", value |-> s.cache],
     http |-> 0]

\* POST /connect
Connect ==
    /\ Idle
    /\ \E in \in DeviceInputs : Returned("connect", connect(Frame(in)))

\* POST /disconnect
Disconnect ==
    /\ Idle
    /\ \E in \in DeviceInputs : Returned("disconnect", disconnect(Frame(in)))

\* GET /status
GetStatus ==
    /\ Idle
    /\ \E in \in DeviceInputs :
          Finish("get_status", get_status(Frame(in)), StatusReturned(get_status(Frame(in))))

\* the streaming loop's read
GetFastStatus ==
    /\ Idle
    /\ \E in \in DeviceInputs :
          Finish("get_fast_status", get_fast_status(Frame(in)),
                 StatusReturned(get_fast_status(Frame(in))))

\* POST /start
StartWalking ==
    /\ Idle
    /\ \E in \in DeviceInputs : Returned("start_walking", start_walking(Frame(in)))

\* POST /stop
StopWalking ==
    /\ Idle
    /\ \E in \in DeviceInputs : Returned("stop_walking", stop_walking(Frame(in)))

\* POST /mode
SetMode ==
    /\ Idle
    /\ \E in \in DeviceInputs : Returned("set_mode", set_mode_manual(Frame(in)))

\* POST /speed
SetSpeed ==
    /\ Idle
    /\ \E in \in SpeedInputs : Returned("set_speed", set_speed(Frame(in)))

\* DeviceService.update_preferences, as the settings service calls it
UpdatePreferences ==
    /\ Idle
    /\ \E in \in DeviceInputs :
          Returned("update_preferences", update_preferences(Frame(in)))

\* the treadmill notifies on its own: the driver calls _on_new_status with a
\* record, or with an empty one
StatusNotification ==
    /\ Idle
    /\ is_connected
    /\ \E record \in {NoRecord, StatusRecord(dev)} :
          /\ last_status' = OnNewStatus(last_status, record)
          /\ ctl_last_status' = IF record = NoRecord THEN ctl_last_status ELSE record
          /\ trace' = <<<<"_on_new_status", IF record = NoRecord THEN "empty" ELSE "record">>>>
    /\ op' = "_on_new_status"
    /\ UNCHANGED <<sse, metrics_service, flows, now, rows, nextId, dev, is_connected, current_session,
                   last_device_metrics, stream, active_session_id, result, preflight>>

\* the caller of a status method changes the dictionary it was given
ReaderMutates ==
    /\ op \in {"get_status", "get_fast_status"}
    /\ result.exc = NoExc
    /\ result.session.value.speed # 99
    /\ result' = [result EXCEPT !.session.value.speed = 99]
    /\ last_status' = IF result.session.ref = "cache"
                      THEN [last_status EXCEPT !.speed = 99]
                      ELSE last_status
    /\ UNCHANGED <<sse, metrics_service, flows, now, rows, nextId, dev, is_connected, ctl_last_status, current_session,
                   last_device_metrics, stream, active_session_id, op, preflight, trace>>

NextDevice ==
    \/ Connect
    \/ Disconnect
    \/ GetStatus
    \/ GetFastStatus
    \/ StartWalking
    \/ StopWalking
    \/ SetMode
    \/ SetSpeed
    \/ UpdatePreferences
    \/ StatusNotification
    \/ ReaderMutates
    \/ StartSession
    \/ EndSession
    \/ Return

SpecDevice == Init /\ [][NextDevice]_vars

\* ------------------------------------------------- the treadmill blueprint
DeviceOnlyInputs == { in \in StartInputs : in.db = NoPlan }

SetupTreadmill ==
    /\ Idle
    /\ \E in \in StartInputs : Answered("setup_treadmill", setup_treadmill(Frame(in)))

StopTreadmill ==
    /\ Idle
    /\ \E in \in DeviceOnlyInputs : Answered("stop_treadmill", stop_treadmill(Frame(in)))

StartTreadmill ==
    /\ Idle
    /\ \E in \in DeviceOnlyInputs : Answered("start_treadmill", start_treadmill(Frame(in)))

NextTreadmill ==
    \/ SetupTreadmill
    \/ StopTreadmill
    \/ StartTreadmill
    \/ Return

SpecTreadmill == Init /\ [][NextTreadmill]_vars


\* ------------------------------------------------------ GET /stream (SSE)
MaxEvents == 5
MaxIdleCount == 3
MaxPollCall == 2

\* what can go wrong during one step of the generator
PollInputs ==
    [dev : Plans(MaxPollCall), db : {NoPlan}, notify : BOOLEAN, instant : {FALSE}]

StreamRoute == "stream_treadmill_data"

QuietInput == [dev |-> NoPlan, db |-> NoPlan, notify |-> TRUE, instant |-> FALSE]

\* disconnect(), with whatever it raises swallowed
safe_disconnect_try(s) == Caught(disconnect(s))

\* ... finally: is_connected = False; controller.last_status = None
safe_disconnect(s) == [safe_disconnect_try(s) EXCEPT !.conn = FALSE, !.ctl = NoRecord]

\* safe_disconnect, then asyncio.sleep(1)
reset_device_state(s) == Pause(safe_disconnect(s), "reset_sleep")

\* if not device_service.is_connected: connect(); sleep(0.5)
stream_connect(s) == IF s.conn THEN s ELSE Pause(connect(s), "connect_sleep")

\* ... await device_service.controller.ask_stats()
stream_request(s) == DriverCall(stream_connect(s), "ask_stats", 0)

\* except Exception as e: reset_device_state(...)
stream_recover(t) == IF Ok(t) THEN t ELSE reset_device_state(Caught(t))

\* is_idle_status: speed, dist, steps and time are 0 and state is 0
is_idle_status(status) ==
    /\ status.speed = 0
    /\ status.dist = 0
    /\ status.steps = 0
    /\ status.time = 0
    /\ status.state = "idle"

\* idle_count is never set back to 0
CountedAll(count, cur_status) ==
    IF cur_status = NoRecord THEN count
    ELSE IF is_idle_status(cur_status) THEN count + 1
    ELSE count

\* idle_count after the classification of cur_status
Counted(count, cur_status) ==
    IF cur_status = NoRecord THEN count
    ELSE IF is_idle_status(cur_status) THEN count + 1
    ELSE 0

\* the event the generator yields for cur_status
EventOf(count, cur_status) ==
    IF cur_status = NoRecord THEN "no_status"
    ELSE IF ~is_idle_status(cur_status) THEN "active"
    ELSE IF count + 1 >= MaxIdleCount THEN "stopped"
    ELSE "idle"

\* if idle_count >= MAX_IDLE_COUNT: handle_idle_disconnect(...)
stream_classified(s) ==
    IF EventOf(sse.idle_count, s.ctl) = "stopped" THEN reset_device_state(s) ELSE s

\* a step of the generator has run on frame s and left the stream in state next
Yielded(s, next) ==
    /\ sse' = next
    /\ trace' = s.trace
    /\ dev' = s.dev
    /\ is_connected' = s.conn
    /\ last_status' = s.cache
    /\ ctl_last_status' = s.ctl
    /\ UNCHANGED <<now, rows, nextId, current_session, last_device_metrics, stream,
                   active_session_id, result, preflight, metrics_service, flows>>

\* the server starts to iterate generate(): reset_device_state, idle_count = 0
StreamOpen ==
    /\ Idle
    /\ op' = StreamRoute
    /\ \E in \in PollInputs :
          Yielded(reset_device_state(Frame(in)),
                  [route |-> StreamRoute, pc |-> "loop", idle_count |-> 0, events |-> << >>])

\* the top of the loop: connect if needed and ask for the stats; an exception
\* resets the link and yields a reconnecting event that carries its text
StreamRequested(t) ==
    Yielded(stream_recover(t),
            IF Ok(t) THEN [sse EXCEPT !.pc = "asked"]
            ELSE [sse EXCEPT !.pc = "yielded", !.events = Append(@, t.msg)])

StreamRequest ==
    /\ sse.route = StreamRoute
    /\ sse.pc \in {"loop", "yielded"}
    /\ Len(sse.events) < MaxEvents
    /\ op' = op
    /\ \E in \in PollInputs : StreamRequested(stream_request(Frame(in)))

\* the events the consumer has received, the last MaxEvents of them
Logged(events, e) ==
    IF Len(events) < MaxEvents THEN Append(events, e) ELSE Append(Tail(events), e)

\* cur_status = controller.last_status is classified and an event is yielded
StatusRead(in) ==
    Yielded(stream_classified(Frame(in)),
            [sse EXCEPT !.pc = IF EventOf(sse.idle_count, ctl_last_status) = "stopped"
                               THEN "final" ELSE "yielded",
                        !.idle_count = Counted(@, ctl_last_status),
                        !.events = Logged(@, EventOf(sse.idle_count, ctl_last_status))])

\* after sleep(0.2): read controller.last_status, classify it, yield an event
StreamRead ==
    /\ sse.route = StreamRoute
    /\ sse.pc = "asked"
    /\ op' = op
    /\ \E in \in PollInputs : StatusRead(in)

\* the loop goes round on a link that works: the request is written and the
\* treadmill's notification arrives before the snapshot is read
StreamAsk ==
    /\ sse.route = StreamRoute
    /\ sse.pc \in {"loop", "yielded"}
    /\ op' = op
    /\ StreamRequested(stream_request(Frame(QuietInput)))

StreamAnswer ==
    /\ sse.route = StreamRoute
    /\ sse.pc = "asked"
    /\ op' = op
    /\ StatusRead(QuietInput)

\* the generator is resumed after its final event and returns, or the
\* consumer has gone and the server closes it at a yield: the finally
\* clauses run safe_disconnect
StreamClose ==
    /\ sse.route = StreamRoute
    /\ sse.pc \in {"yielded", "final"}
    /\ op' = op
    /\ \E in \in PollInputs :
          Yielded(safe_disconnect(Frame(in)), [sse EXCEPT !.pc = "closed"])

\* somebody presses the start/stop button of the treadmill
BeltButton ==
    /\ dev' = IF dev.belt = "running" THEN DeviceEffect(dev, "stop_belt", 0)
              ELSE DeviceEffect(dev, "start_belt", 0)
    /\ UNCHANGED <<sse, metrics_service, flows, now, rows, nextId, is_connected, last_status, ctl_last_status,
                   current_session, last_device_metrics, stream, active_session_id,
                   op, result, preflight, trace>>

\* ---------------------------------------------- GET /metrics/stream (SSE)
MetricsRoute == "stream_raw_metrics"

\* the frame of a step that works on the metrics service and its controller
MetricsFrame(in) ==
    [Frame(in) EXCEPT !.conn = metrics_service.connected,
                      !.ctl = metrics_service.last_status]

\* if not self.address: scan, take the first candidate
metrics_scan(s) == IF metrics_service.address THEN s ELSE DriverCall(s, "scan", 0)

\* self.address = scanner.walking_belt_candidates[0].address
Scanned(tr) == \E i \in 1..Len(tr) : tr[i] = <<"scan", "ok">>

\* self.controller = Controller(self.address); await self.controller.run();
\* self.connected = True / except: self.connected = False; raise
metrics_run(t) ==
    IF ~Ok(t) THEN [t EXCEPT !.conn = FALSE]
    ELSE IF Ok(DriverCall(t, "run", 0))
    THEN [DriverCall(t, "run", 0) EXCEPT !.conn = TRUE, !.ctl = NoRecord]
    ELSE [DriverCall(t, "run", 0) EXCEPT !.conn = FALSE, !.ctl = NoRecord]

\* DeviceMetricsService.connect
metrics_connect(s) == IF ~Ok(s) \/ s.conn THEN s ELSE metrics_run(metrics_scan(s))

\* DeviceMetricsService.disconnect
metrics_disconnect(s) ==
    IF ~Ok(s) \/ ~s.conn THEN s ELSE SetConnected(DriverCall(s, "disconnect", 0), FALSE)

\* DeviceMetricsService.get_status: the request; the dictionary is built
\* from controller.last_status after sleep(0.1)
metrics_get_status(s) ==
    Pause(DriverCall(metrics_connect(s), "ask_stats", 0), "response_sleep")

\* finally: try: disconnect() / except: log
metrics_cleanup(s) == Caught(metrics_disconnect(Caught(s)))

\* a step of get_device_data has run on frame s
MetricsYielded(s, next) ==
    /\ sse' = next
    /\ trace' = s.trace
    /\ dev' = s.dev
    /\ metrics_service' = [connected |-> s.conn, last_status |-> s.ctl,
                           address |-> metrics_service.address \/ Scanned(s.trace)]
    /\ flows' = flows
    /\ UNCHANGED <<now, rows, nextId, current_session, last_device_metrics, stream,
                   active_session_id, result, preflight, is_connected, last_status,
                   ctl_last_status>>

\* where the generator is after a step, and what it has yielded
MetricsAfter(t, events) ==
    IF ~Ok(t) THEN [route |-> MetricsRoute, pc |-> "failing", idle_count |-> 0,
                    events |-> Append(events, t.msg)]
    ELSE IF t.ctl # NoRecord
    THEN [route |-> MetricsRoute, pc |-> "yielded", idle_count |-> 0,
          events |-> Append(events, "data")]
    ELSE [route |-> MetricsRoute, pc |-> "loop", idle_count |-> 0, events |-> events]

\* the server starts to iterate generate(): the initial connect; when it
\* fails the generator yields the text of the exception and leaves
MetricsOpen ==
    /\ Idle
    /\ op' = MetricsRoute
    /\ \E in \in PollInputs :
          MetricsYielded(Caught(metrics_connect(MetricsFrame(in))),
                         IF Ok(metrics_connect(MetricsFrame(in)))
                         THEN [NoStream EXCEPT !.route = MetricsRoute, !.pc = "loop"]
                         ELSE MetricsAfter(metrics_connect(MetricsFrame(in)), << >>))

\* one pass through the loop: get_status, yield the data if there is a
\* status, sleep; an exception leaves the loop and yields its text
MetricsPoll ==
    /\ sse.route = MetricsRoute
    /\ sse.pc \in {"loop", "yielded"}
    /\ Len(sse.events) < MaxEvents
    /\ op' = op
    /\ \E in \in PollInputs :
          MetricsYielded(Caught(metrics_get_status(MetricsFrame(in))),
                         MetricsAfter(metrics_get_status(MetricsFrame(in)), sse.events))

\* resumed after the error event, the generator runs its finally clause and ends
MetricsEnd ==
    /\ sse.route = MetricsRoute
    /\ sse.pc = "failing"
    /\ op' = op
    /\ \E in \in PollInputs :
          MetricsYielded(metrics_cleanup(MetricsFrame(in)), [sse EXCEPT !.pc = "closed"])

\* the consumer has gone and the server closes generate() at a yield: its
\* finally clause closes the event loop; whether the finally clause of
\* get_device_data still runs is left to the interpreter
MetricsCancel ==
    /\ sse.route = MetricsRoute
    /\ sse.pc = "yielded"
    /\ op' = op
    /\ \/ \E in \in PollInputs :
             MetricsYielded(metrics_cleanup(MetricsFrame(in)), [sse EXCEPT !.pc = "closed"])
       \/ MetricsYielded(MetricsFrame(QuietInput), [sse EXCEPT !.pc = "closed"])

NextStream ==
    \/ StreamOpen
    \/ StreamRequest
    \/ StreamRead
    \/ StreamClose
    \/ BeltButton
    \/ StartWalking
    \/ StopWalking
    \/ SetSpeed
    \/ SetMode
    \/ Return

SpecStream == Init /\ [][NextStream]_vars

\* the stream on a working link, polled for as long as it is open: the event
\* loop resumes the generator after each of its sleeps
NextStreamLive ==
    \/ StreamOpen
    \/ StreamAsk
    \/ StreamAnswer
    \/ StreamClose
    \/ BeltButton
    \/ Walk
    \/ StopWalking
    \/ Return

SpecStreamLive ==
    Init /\ [][NextStreamLive]_vars /\ WF_vars(StreamAsk) /\ WF_vars(StreamAnswer)

NextMetricsStream ==
    \/ MetricsOpen
    \/ MetricsPoll
    \/ MetricsEnd
    \/ MetricsCancel
    \/ BeltButton
    \/ Walk
    \/ Return

SpecMetricsStream == Init /\ [][NextMetricsStream]_vars

\* ------------------------------- ensure_connection, one await at a time
\* the link works; the command carries the speed asked for
FlowInputs == { in \in SpeedInputs : in.dev = NoPlan }

\* @ensure_connection(disconnect_after=...)
DisconnectAfter(f) == f = "set_speed"

\* the first await of the method's body is its write to the treadmill
FlowWrite(s, f) ==
    IF f = "set_speed" THEN DriverCall(s, "change_speed", s.in.speed)
    ELSE DriverCall(s, "ask_stats", 0)

\* flow f has run on frame s up to its next await
Stepped(s, f, pc, was_connected) ==
    /\ flows' = [flows EXCEPT ![f] = [pc |-> pc, was_connected |-> was_connected]]
    /\ trace' = s.trace
    /\ dev' = s.dev
    /\ is_connected' = s.conn
    /\ last_status' = s.cache
    /\ ctl_last_status' = s.ctl
    /\ UNCHANGED <<now, rows, nextId, current_session, last_device_metrics, stream,
                   active_session_id, op, result, preflight, sse, metrics_service>>

\* was_connected = self.is_connected: on a set flag the body starts at once
\* and writes; otherwise connect() finds the flag unset and awaits
\* controller.run
Entered(f) ==
    /\ flows[f].pc = "out"
    /\ \E in \in FlowInputs :
          IF is_connected THEN Stepped(FlowWrite(Frame(in), f), f, "wrote", TRUE)
          ELSE Stepped(DriverCall(Frame(in), "run", 0), f, "connecting", FALSE)

\* run and the sleep after it are over: is_connected = True, connect()
\* returns and the body writes
Connected(f) ==
    /\ flows[f].pc = "connecting"
    /\ \E in \in FlowInputs :
          Stepped(FlowWrite(SetConnected(Sleep(Frame(in)), TRUE), f), f, "wrote", FALSE)

\* the sleep after the write is over and the body returns; finally:
\* disconnect() when this call connected or disconnect_after is set, and
\* disconnect() awaits controller.disconnect() only on a set flag
Left(f) ==
    /\ flows[f].pc = "wrote"
    /\ IF (~flows[f].was_connected \/ DisconnectAfter(f)) /\ is_connected
       THEN Stepped(DriverCall(Sleep(Frame(QuietInput)), "disconnect", 0), f, "closing",
                    flows[f].was_connected)
       ELSE Stepped(Sleep(Frame(QuietInput)), f, "out", FALSE)

\* controller.disconnect() and the sleep after it are over: is_connected = False
Closed(f) ==
    /\ flows[f].pc = "closing"
    /\ Stepped(SetConnected(Sleep(Frame(QuietInput)), FALSE), f, "out", FALSE)

FlowEnter == \E f \in FlowIds : Entered(f)

FlowConnect == \E f \in FlowIds : Connected(f)

FlowLeave == \E f \in FlowIds : Left(f)

FlowClose == \E f \in FlowIds : Closed(f)

\* the session stream's poll and manual commands on one event loop
NextInterleave ==
    \/ FlowEnter
    \/ FlowConnect
    \/ FlowLeave
    \/ FlowClose
    \/ BeltButton

SpecInterleave == Init /\ [][NextInterleave]_vars

\* ------------------------------------------------- helpers and final metrics
MaxDistance == 12

Distances == 0..MaxDistance

\* durations in seconds: none, a few seconds, minutes, half an hour, an hour
Durations == {0, 1, 12, 13, 60, 600, 1800, 3600}

Weights == {None, DefaultWeight, UserWeight}


\* what calculate_calories was given and what it returned or raised
CaloriesResult(s, distance, seconds, weight) ==
    [exc |-> s.exc, msg |-> s.msg, http |-> 0,
     session |-> [distance |-> distance, seconds |-> seconds, weight |-> weight,
                  calories |-> IF Ok(s) THEN s.ret ELSE None]]

\* calculate_calories(distance_km, duration_minutes, weight_kg) called on its own
CalculateCalories ==
    /\ Idle
    /\ \E distance \in Distances, seconds \in Durations, weight \in Weights :
          Finish("calculate_calories", Frame(QuietInput),
                 CaloriesResult(calculate_calories(Frame(QuietInput), distance, seconds, weight),
                                distance, seconds, weight))

\* the driver fails for a few calls in a row and works again
BurstInputs ==
    [dev : Bursts(MaxDevCall), db : {NoPlan}, notify : {TRUE}, instant : {FALSE}]

\* ExerciseService.end_session while the link comes and goes
EndSessionBurst ==
    /\ Idle
    /\ \E in \in BurstInputs : Returned("end_session", end_session(Frame(in)))

NextSessions ==
    \/ StartSession
    \/ EndSessionBurst
    \/ Walk
    \/ Return

SpecSessions == Init /\ [][NextSessions]_vars

\* ExerciseService._get_device_metrics called on its own
GetDeviceMetrics ==
    /\ Idle
    /\ \E in \in DeviceOnlyInputs :
          Returned("_get_device_metrics", _get_device_metrics(Frame(in)))

NextHelpers ==
    \/ CalculateCalories
    \/ GetDeviceMetrics
    \/ Walk
    \/ Return

SpecHelpers == Init /\ [][NextHelpers]_vars

\* ============================================================== properties
Commands(tr) == { tr[i][1] : i \in 1..Len(tr) }

Failed(tr) == { tr[i][1] : i \in { j \in 1..Len(tr) : tr[j][2] = "fail" } }

Significant(c) == c.dist > 5 \/ c.steps > 50 \/ c.time > 30

AtBoundary == Counters(5, 50, 30)

\* C1: the store never holds two session rows with end_time = NULL.
C1_AtMostOneOpen == Cardinality(OpenIds(rows)) <= 1

\* C2: POST /session/start while a session is held in memory is answered
\* with the already-active error; no row is inserted, the preflight check is
\* not run and neither the treadmill nor the store is touched.
C2_ActiveStartRejected ==
    [][ (op' = "start_session_stream" /\ current_session # NoSession)
        => /\ result'.http = 409
           /\ result'.msg = "An active session already exists"
           /\ rows' = rows
           /\ nextId' = nextId
           /\ ~preflight'.called
           /\ trace' = << >>
           /\ current_session' = current_session ]_vars

C2_Witness ==
    /\ op = "start_session_stream"
    /\ result.http = 409
    /\ current_session # NoSession
    /\ current_session.id \in OpenIds(rows)

\* C3: when the preflight check is not ready, start_session raises with the
\* reason the check gave, inserts no row, sends no start_belt and leaves the
\* session pointer as it was (empty when it was empty).
C3_NotReadyStartsNothing ==
    [][ (op' = "start_session" /\ preflight'.called /\ ~preflight'.ready)
        => /\ result'.exc = "ValueError"
           /\ result'.msg = preflight'.msg
           /\ result'.session = None
           /\ rows' = rows
           /\ nextId' = nextId
           /\ "start_belt" \notin Commands(trace')
           /\ "INSERT" \notin Commands(trace')
           /\ current_session' = current_session ]_vars

C3_Witness ==
    /\ op = "start_session"
    /\ preflight.called /\ ~preflight.ready
    /\ preflight.msg = MsgUnsaved
    /\ preflight.stats.steps > 50
    /\ current_session = NoSession
    /\ result.exc = "ValueError"

\* C4: ending a session with nothing held in memory and exactly one open row
\* in the store succeeds when no driver or store call fails: the open row is
\* adopted, closed and returned.
C4_SelfHealingSucceeds ==
    [][ ( /\ op' \in {"end_session", "stop_session"}
          /\ current_session = NoSession
          /\ Cardinality(OpenIds(rows)) = 1
          /\ Failed(trace') = {} )
        => /\ result'.exc = NoExc
           /\ result'.session \in OpenIds(rows)
           /\ rows'[result'.session].end_time # NULL ]_vars

\* C5: ending a session with nothing held in memory and no open row in the
\* store fails and changes no row; when the lookup itself worked the error is
\* the no-active-session one.
C5_NothingToEnd ==
    [][ ( /\ op' = "end_session"
          /\ current_session = NoSession
          /\ OpenIds(rows) = {} )
        => /\ result'.exc # NoExc
           /\ rows' = rows
           /\ nextId' = nextId
           /\ current_session' = NoSession
           /\ ("SELECT open" \notin Failed(trace')
                 => result'.exc = "ValueError" /\ result'.msg = MsgNoActive) ]_vars

C5_Witness ==
    /\ op = "end_session"
    /\ result.exc = "ValueError"
    /\ result.msg = MsgNoActive
    /\ current_session = NoSession
    /\ DOMAIN rows # {}
    /\ OpenIds(rows) = {}

\* C6: a row whose end_time is set is never changed again.
C6_ClosedIsTerminal ==
    [][ \A i \in DOMAIN rows :
          (rows[i].end_time # NULL /\ i \in DOMAIN rows') => rows'[i] = rows[i] ]_vars

C8_ReadyLeavesStandby ==
    (preflight.called /\ preflight.ready) => (dev.mode = "standby" /\ ~is_connected)

\* C9: the preflight check answers not-ready with the unsaved-data message
\* exactly when the counters it read have distance > 0.05 km or steps > 50 or
\* time > 30 s; counters at 0.05 km, 50 steps and 30 s do not block.
C9_BlocksExactlyAboveThreshold ==
    preflight.called =>
        /\ (~preflight.ready /\ preflight.msg = MsgUnsaved)
              <=> (preflight.read /\ Significant(preflight.stats))
        /\ (preflight.read /\ preflight.stats = AtBoundary) => preflight.msg # MsgUnsaved

C9_Witness ==
    /\ op = "check_and_clean_state"
    /\ preflight.called /\ ~preflight.ready
    /\ preflight.msg = MsgUnsaved
    /\ preflight.read
    /\ preflight.stats = Counters(5, 50, 31)

\* C10: whenever the treadmill holds counters above the threshold when the
\* preflight check runs, the check answers not-ready.
C10_FailsClosed ==
    (preflight.called /\ Significant(dev.c)) => ~preflight.ready

\* C11: a preflight check whose stale-session query and updates succeed
\* closes every row that was open and started more than 3 hours ago, with
\* end_time = min(start_time + 30 minutes, now), duration_seconds = end_time -
\* start_time and the auto-closed note, and changes no other row; a stale
\* session's end_time is therefore start_time + 30 minutes.
C11_StaleSessionsAutoClosed ==
    [][ ( /\ op' = "check_and_clean_state"
          /\ "SELECT stale" \in Commands(trace') \ Failed(trace')
          /\ "UPDATE auto-close" \notin Failed(trace') )
        => /\ DOMAIN rows' = DOMAIN rows
           /\ \A i \in DOMAIN rows :
                IF rows[i].end_time = NULL /\ rows[i].start_time < now - 6
                THEN /\ rows'[i].end_time = rows[i].start_time + 1
                     /\ rows'[i].end_time <= now
                     /\ rows'[i].duration_seconds = 1800
                     /\ rows'[i].notes = "Auto-closed by system - Session was incomplete"
                     /\ rows'[i].start_time = rows[i].start_time
                     /\ rows'[i].steps = rows[i].steps
                     /\ rows'[i].distance = rows[i].distance
                     /\ rows'[i].calories = rows[i].calories
                ELSE rows'[i] = rows[i] ]_vars

C11_Witness ==
    /\ op = "check_and_clean_state"
    /\ now = 7
    /\ DOMAIN rows = {1, 2}
    /\ \A i \in DOMAIN rows :
          /\ rows[i].start_time = 0
          /\ rows[i].end_time = 1
          /\ rows[i].duration_seconds = 1800
          /\ rows[i].notes = "Auto-closed by system - Session was incomplete"

\* C12: a store error in the stale-session step of the preflight check, in
\* the query or in an update, does not abort the check: it still goes on to
\* read the treadmill's memory and does not answer with the cleanup-failed
\* reason.
C12_CleanupFailureDoesNotAbort ==
    [][ ( /\ op' = "check_and_clean_state"
          /\ \/ "SELECT stale" \in Failed(trace')
             \/ "UPDATE auto-close" \in Failed(trace') )
        => /\ preflight'.msg # MsgCleanupFailed
           /\ "switch_mode" \in Commands(trace') ]_vars

\* C13: connect() while connected and disconnect() while disconnected issue
\* no driver call, raise nothing and leave the connection state, the
\* treadmill and the status cache as they were; a connect() that returned
\* leaves the link connected and a disconnect() that returned leaves it
\* disconnected, so that a repetition is such a call that does nothing.
C13_ConnectDisconnectIdempotent ==
    [][ /\ (Idle /\ op' = "connect" /\ is_connected)
            => /\ trace' = << >>
               /\ result'.exc = NoExc
               /\ is_connected'
               /\ UNCHANGED <<dev, last_status, ctl_last_status>>
        /\ (Idle /\ op' = "disconnect" /\ ~is_connected)
            => /\ trace' = << >>
               /\ result'.exc = NoExc
               /\ ~is_connected'
               /\ UNCHANGED <<dev, last_status, ctl_last_status>>
        /\ (Idle /\ op' = "connect" /\ result'.exc = NoExc) => is_connected'
        /\ (Idle /\ op' = "disconnect" /\ result'.exc = NoExc) => ~is_connected' ]_vars

C13_Witness == op = "connect" /\ is_connected /\ trace = << >> /\ result.exc = NoExc

\* C14: when a driver call raises inside connect() or inside disconnect(),
\* the service is left disconnected (is_connected = FALSE).
C14_TransitionErrorDisconnects ==
    [][ (Idle /\ op' \in {"connect", "disconnect"} /\ result'.exc # NoExc)
        => ~is_connected' ]_vars

Wrapped ==
    {"get_status", "get_fast_status", "start_walking", "stop_walking", "set_mode",
     "set_speed", "update_preferences"}

KeepsOpen == {"get_status", "get_fast_status", "start_walking"}

\* C15 as stated: every connection-wrapped operation entered with the link
\* open ends with the link open.
C15_OpenStaysOpen ==
    [][ (Idle /\ is_connected /\ op' \in Wrapped) => is_connected' ]_vars

\* C15, amended: an operation wrapped with disconnect_after = False (status,
\* fast status, start) that is entered with the link open ends with the link
\* open, whether it returned or raised, and never calls the driver's
\* disconnect.
C15_OpenStaysOpenUnlessForced ==
    [][ (Idle /\ is_connected /\ op' \in KeepsOpen)
        => is_connected' /\ Commands(trace') \cap {"run", "disconnect"} = {} ]_vars

C15_Witness ==
    /\ op = "start_walking"
    /\ is_connected
    /\ Commands(trace) = {"start_belt", "sleep"}

\* C16: a connection-wrapped operation entered with the link closed ends
\* with the link closed, whether the wrapped method returned or raised.
C16_OpenedIsReleased ==
    [][ (Idle /\ ~is_connected /\ op' \in Wrapped) => ~is_connected' ]_vars

\* C17: stop_walking, set_mode, set_speed and update_preferences end with
\* the link closed, whatever it was on entry and whether they returned or
\* raised.
C17_ForcedDisconnect ==
    [][ (Idle /\ op' \in Wrapped \ KeepsOpen) => ~is_connected' ]_vars

Delivered(tr) == <<"ask_stats", "ok">> \in { tr[i] : i \in 1..Len(tr) }

CommandsOnly ==
    {"connect", "disconnect", "start_walking", "stop_walking", "set_mode", "set_speed",
     "update_preferences"}

\* C18: the status cache changes only in a step in which the notification
\* callback ran with a record (on its own, or prompted by an ask_stats that
\* reached the treadmill), and then it holds what the callback makes of the
\* last record; a notification with an empty record, a command, a connect or
\* disconnect, and a caller changing the dictionary a status method gave it
\* all leave the cache as it was.
C18_OnlyTheCallbackWritesTheCache ==
    [][ /\ last_status' # last_status
            => /\ \/ op' = "_on_new_status" /\ trace' = <<<<"_on_new_status", "record">>>>
                  \/ Idle /\ Delivered(trace')
               /\ ctl_last_status' # NoRecord
               /\ last_status' = OnNewStatus(last_status, ctl_last_status')
        /\ (op' = "_on_new_status" /\ trace' = <<<<"_on_new_status", "empty">>>>)
            => last_status' = last_status
        /\ (Idle /\ op' \in CommandsOnly) => last_status' = last_status
        /\ (~Idle /\ op' = op) => last_status' = last_status ]_vars

C18_Witness ==
    /\ op = "get_status"
    /\ result.exc = NoExc
    /\ result.session.ref = "copy"
    /\ result.session.value.speed = 99
    /\ last_status.speed = 10

IsPref(e) == e[1] \in { PrefCmd(i) : i \in 1..Len(PrefNames) }

FieldOf(e) == CHOOSE i \in 1..Len(PrefNames) : PrefCmd(i) = e[1]

PrefEntries(tr) == SelectSeq(tr, IsPref)

Attempts(tr, i) == Cardinality({ j \in 1..Len(tr) : tr[j][1] = PrefCmd(i) })

Failures(tr, i) == Cardinality({ j \in 1..Len(tr) : tr[j] = <<PrefCmd(i), "fail">> })

\* the writes follow the order of the list: the first is of the first field,
\* a failed write is followed by a write of the same field and a write that
\* returned by a write of the next one
InOrder(p) ==
    /\ p # << >> => FieldOf(p[1]) = 1
    /\ \A j \in 1..(Len(p) - 1) :
          FieldOf(p[j + 1]) = IF p[j][2] = "fail" THEN FieldOf(p[j]) ELSE FieldOf(p[j]) + 1

\* C19: update_preferences writes the fields in the order max_speed,
\* start_speed, sensitivity, child_lock, units, tries each field at most 3
\* times, and when the third attempt for a field fails the operation raises
\* the error naming that field and no later field is written.
C19_BoundedRetriesNameTheField ==
    [][ (Idle /\ op' = "update_preferences")
        => /\ InOrder(PrefEntries(trace'))
           /\ \A i \in 1..Len(PrefNames) :
                 /\ Attempts(trace', i) <= PrefRetries
                 /\ Failures(trace', i) = PrefRetries
                      => /\ result'.exc = "Exception"
                         /\ result'.msg = PrefError(i)
                         /\ \A j \in (i + 1)..Len(PrefNames) : Attempts(trace', j) = 0 ]_vars

\* C20: in update_preferences, between a failed write of a field and the
\* next write of that field the link is disconnected and connected again.
C20_ReconnectBetweenRetries ==
    [][ (Idle /\ op' = "update_preferences")
        => \A j, k \in 1..Len(trace') :
             (j < k /\ IsPref(trace'[j]) /\ trace'[j][2] = "fail"
                    /\ trace'[k][1] = trace'[j][1])
             => \E a, b \in (j + 1)..(k - 1) :
                  a < b /\ trace'[a][1] = "disconnect" /\ trace'[b][1] = "run" ]_vars

DeviceCommands ==
    {"start_belt", "stop_belt", "switch_mode", "change_speed"}
        \cup { PrefCmd(i) : i \in 1..Len(PrefNames) }

\* every command that reached the treadmill is directly followed by the wait
Spaced(tr) ==
    \A j \in 1..Len(tr) :
        (tr[j][1] \in DeviceCommands /\ tr[j][2] = "ok")
        => (j < Len(tr) /\ tr[j + 1] = <<"sleep", "ok">>)

\* C21: in every operation, each command written to the treadmill is
\* followed by the wait of the minimum spacing interval before the next
\* driver call is made or the operation returns.
C21_CommandsAreSpaced ==
    [][ (Idle /\ op' # "idle") => Spaced(trace') ]_vars

\* C27: calculate_calories returns 0 whenever the distance is 0, for every
\* duration, with the weight 70 (given, or taken by default).
C27_NoDistanceNoCalories ==
    (/\ op = "calculate_calories"
     /\ result.session.distance = 0
     /\ result.session.weight \in {None, DefaultWeight})
    => (result.exc = NoExc /\ result.session.calories = 0)

\* C28: end_session never divides by zero: a session whose computed duration
\* is 0 seconds is closed like any other.
C28_NoDivisionByZero ==
    [][ (Idle /\ op' = "end_session") => result'.exc # "ZeroDivisionError" ]_vars

Retries(tr) == { j \in 1..Len(tr) : tr[j][1] = "retry_sleep" }

\* the calls of the attempt that ends at position last
Attempt(tr, last) == { j \in 1..last : \A k \in Retries(tr) : k < j \/ k >= last }

AttemptFailed(tr, last) == \E j \in Attempt(tr, last) : tr[j][2] = "fail"

Requests(tr) == Cardinality({ j \in 1..Len(tr) : tr[j][1] = "ask_stats" })

\* C29: _get_device_metrics never raises; it makes at most 3 status
\* requests, waits and tries again only after a failed attempt, returns the
\* reading of the first attempt that did not fail (and keeps it as the last
\* known metrics), and when the third attempt fails too it returns the last
\* known metrics, which are zeros when there were none.
C29_FinalMetricsNeverFail ==
    [][ (Idle /\ op' = "_get_device_metrics")
        => /\ result'.exc = NoExc
           /\ Requests(trace') <= MetricsRetries
           /\ Cardinality(Retries(trace')) <= MetricsRetries - 1
           /\ \A k \in Retries(trace') : AttemptFailed(trace', k)
           /\ IF AttemptFailed(trace', Len(trace'))
              THEN /\ Cardinality(Retries(trace')) = MetricsRetries - 1
                   /\ result'.session = last_device_metrics
                   /\ last_device_metrics' = last_device_metrics
                   /\ ~last_device_metrics.set
                        => /\ result'.session.distance = 0
                           /\ result'.session.duration = 0
                           /\ result'.session.steps = 0
              ELSE /\ result'.session = MetricsOf(last_status')
                   /\ last_device_metrics' = result'.session ]_vars

C29_Witness ==
    /\ op = "_get_device_metrics"
    /\ result.exc = NoExc
    /\ AttemptFailed(trace, Len(trace))
    /\ result.session.set
    /\ result.session.distance > 0

Sessions == {"start_session", "end_session"}

\* a stop attempt: stop_walking reached stop_belt, or could not even connect
StopAttempt(e) == e[1] = "stop_belt" \/ e = <<"run", "fail">>

\* C30: when start_session or end_session raises a driver error, that error
\* is the one of a driver call that failed before a stop attempt was made,
\* also when the stop attempt failed itself; and a failed start_belt or
\* stop_belt is never passed over in silence.
C30_StopAttemptedErrorKept ==
    [][ (Idle /\ op' \in Sessions)
        => /\ result'.exc = "DeviceError"
                => \E j \in 1..Len(trace') :
                     /\ trace'[j][2] = "fail"
                     /\ result'.msg = DriverError(trace'[j][1])
                     /\ \E k \in (j + 1)..Len(trace') : StopAttempt(trace'[k])
           /\ Failed(trace') \cap {"start_belt", "stop_belt"} # {}
                => result'.exc # NoExc ]_vars

C30_Witness ==
    /\ op = "end_session"
    /\ result.exc = "DeviceError"
    /\ result.msg = DriverError("disconnect")
    /\ trace[Len(trace) - 2] = <<"stop_belt", "fail">>

Classes == {"idle", "active", "stopped"}

\* the classifications among the events of the stream, in order
Classified(ev) == SelectSeq(ev, LAMBDA e : e \in Classes)

\* the classification at i is idle and so were the two before it
ThirdIdle(cls, i) ==
    /\ i >= MaxIdleCount
    /\ \A j \in (i - MaxIdleCount + 1)..(i - 1) : cls[j] = "idle"

\* C23: the status stream yields the final stopped event on the third idle
\* classification in a row and not before; the stopped event is the last
\* event, it is yielded once, and the generator is at its end after it; a
\* stream that classified a status as active after one or two idle ones goes on.
C23_ThirdIdleStops ==
    sse.route = StreamRoute =>
       /\ \A i \in 1..Len(Classified(sse.events)) :
             /\ Classified(sse.events)[i] = "stopped" => ThirdIdle(Classified(sse.events), i)
             /\ Classified(sse.events)[i] = "idle" => ~ThirdIdle(Classified(sse.events), i)
       /\ \A i \in 1..Len(sse.events) :
             sse.events[i] = "stopped" => i = Len(sse.events) /\ sse.pc \in {"final", "closed"}
       /\ sse.pc = "final" => Len(sse.events) > 0 /\ sse.events[Len(sse.events)] = "stopped"

C23_Witness ==
    /\ sse.pc = "closed"
    /\ sse.events = <<"idle", "active", "idle", "idle", "stopped">>

\* C24 (as stated): the stream does not try to connect again after three
\* failed connects in a row.
C24_ReconnectBounded ==
    sse.route = StreamRoute =>
       \A i \in 1..Len(sse.events) :
          (i > StreamReconnectAttempts
             /\ \A j \in (i - StreamReconnectAttempts)..(i - 1) :
                    sse.events[j] = DriverError("run"))
          => sse.events[i] # DriverError("run")

\* C25: when the status stream ends, whether the generator returned after
\* its final event or the server closed it at a yield, is_connected is false.
C25_StreamEndReleases ==
    [][ sse'.pc = "closed" /\ sse.pc # "closed" => ~is_connected' ]_vars

C25_Witness ==
    /\ sse.pc = "closed"
    /\ trace = << <<"disconnect", "fail">> >>

StatusEvents == {"idle", "active", "stopped", "data"}

\* C26 (as stated): a poll of a stream that raised yields an error event and
\* leaves the generator in its loop, to poll again.
C26_PollErrorKeepsStream ==
    [][ (/\ sse.pc \in {"loop", "yielded"}
         /\ sse'.events # sse.events
         /\ sse'.events[Len(sse'.events)] \notin StatusEvents)
        => sse'.pc = "yielded" ]_vars

\* C31 (as stated): in a start_session whose preflight check was ready, every
\* start_belt sent to the treadmill comes after the INSERT of the session row
\* has returned.
C31_RowBeforeBelt ==
    [][ (op' = "start_session" /\ preflight'.called /\ preflight'.ready)
        => \A i \in 1..Len(trace') :
              trace'[i][1] = "start_belt"
                 => \E j \in 1..(i - 1) : trace'[j] = <<"INSERT", "ok">> ]_vars

\* an attempt to read the final metrics: the stats request, or the connect
\* that failed before it
MetricsRead(e) == e[1] = "ask_stats" \/ e = <<"run", "fail">>

\* C37: end_session reads the final metrics, then stops the belt, then
\* updates the row: an UPDATE is preceded by a stop_belt that succeeded with
\* nothing failing in between, and that by a metrics read; when the stop
\* fails no UPDATE is executed, no row changes and the session pointer stays set.
C37_MetricsStopUpdate ==
    [][ op' = "end_session"
        => /\ \A i \in 1..Len(trace') :
                trace'[i][1] = "UPDATE end"
                   => \E j \in 1..(i - 1) :
                         /\ trace'[j] = <<"stop_belt", "ok">>
                         /\ \A m \in j..(i - 1) : trace'[m][2] = "ok"
                         /\ \E k \in 1..(j - 1) : MetricsRead(trace'[k])
           /\ result'.exc = "DeviceError"
                => /\ "UPDATE end" \notin Commands(trace')
                   /\ rows' = rows
                   /\ current_session' # NoSession ]_vars

C37_Witness ==
    /\ op = "end_session"
    /\ result.exc = "DeviceError"
    /\ <<"ask_stats", "ok">> \in { trace[i] : i \in 1..Len(trace) }
    /\ <<"stop_belt", "fail">> \in { trace[i] : i \in 1..Len(trace) }
    /\ current_session # NoSession
    /\ current_session.id \in OpenIds(rows)

\* C38 (as stated): whenever ExerciseService.current_session is set, the row
\* it refers to is in the store and has end_time = NULL.
C38_PointerIsOpenRow ==
    current_session # NoSession => current_session.id \in OpenIds(rows)

\* the rows the staleness cleanup must not touch: closed, or started within
\* the threshold
Kept(row, t) == row.end_time # NULL \/ row.start_time >= t - StaleThreshold

\* C36: a run of the preflight check removes and adds no row and leaves
\* every row unchanged that was closed or had started within the last 3 hours.
C36_OnlyStaleOpenRowsChange ==
    [][ op' = "check_and_clean_state"
        => /\ DOMAIN rows' = DOMAIN rows
           /\ \A i \in DOMAIN rows : Kept(rows[i], now) => rows'[i] = rows[i] ]_vars

C36_Witness ==
    /\ op = "check_and_clean_state"
    /\ <<"UPDATE auto-close", "ok">> \in { trace[i] : i \in 1..Len(trace) }
    /\ \E i \in DOMAIN rows : rows[i].end_time # NULL /\ rows[i].notes = ""
    /\ \E i \in DOMAIN rows : rows[i].end_time # NULL /\ rows[i].notes # ""

\* C35: the preflight issues the stop command exactly when the belt state it
\* observed is neither idle nor standby, and it does so before the counters
\* are read and before the stale rows are looked up; a preflight that
\* answers ready after such an observation has had its stop acknowledged.
C35_ForceStopUnlessResting ==
    [][ op' = "check_and_clean_state"
        => /\ preflight'.seen \notin {"", "idle", "standby"}
                => /\ \E k \in 1..Len(trace') :
                        /\ StopAttempt(trace'[k])
                        /\ \A j \in 1..Len(trace') :
                              trace'[j][1] \in {"switch_mode", "SELECT stale"}
                                 => k < j
                   /\ preflight'.ready
                        => <<"stop_belt", "ok">>
                              \in { trace'[i] : i \in 1..Len(trace') }
           /\ preflight'.seen \in {"", "idle", "standby"}
                => "stop_belt" \notin Commands(trace') ]_vars

C35_Witness ==
    /\ op = "check_and_clean_state"
    /\ preflight.seen = "running"
    /\ preflight.ready
    /\ <<"stop_belt", "ok">> \in { trace[i] : i \in 1..Len(trace) }
    /\ dev.belt # "running"

\* the device and store calls of the preflight that the claim lists
PreflightCalls == {"run", "ask_stats", "stop_belt", "SELECT stale", "switch_mode", "disconnect"}

\* C39 (as stated): the preflight always ends with a verdict, and a run of it
\* in which a status read, the force stop, the stale-row query, the counter
\* read, the mode reset or a disconnect failed answers not ready.
C39_EveryFailureNotReady ==
    [][ op' = "check_and_clean_state"
        => /\ preflight'.called
           /\ (Failed(trace') \cap PreflightCalls) # {} => ~preflight'.ready ]_vars

\* the snapshots the claim calls idle
Resting(status) == status.speed = 0 /\ status.state \in {"idle", "standby"}

\* C32 (as stated): a snapshot read by the stream is classified idle exactly
\* when its speed is 0 and its belt state is idle or standby, whatever its
\* distance, steps and time are; any other snapshot is reported active and
\* sets the idle counter back to 0.
C32_IdleIgnoresCounters ==
    [][ ( /\ sse.route = StreamRoute
          /\ sse.pc = "asked"
          /\ sse'.pc \in {"yielded", "final"}
          /\ ctl_last_status # NoRecord )
        => /\ sse'.events[Len(sse'.events)] \in {"idle", "stopped"}
                <=> Resting(ctl_last_status)
           /\ sse'.events[Len(sse'.events)] = "active" => sse'.idle_count = 0 ]_vars

\* C34 (as stated): a poll of the stream that finds no snapshot adds one to
\* the idle counter, and the poll that brings the counter to MaxIdleCount
\* ends the stream.
C34_NoStatusCountsAsIdle ==
    [][ ( /\ sse.route = StreamRoute
          /\ sse.pc = "asked"
          /\ sse'.pc \in {"yielded", "final"}
          /\ ctl_last_status = NoRecord )
        => /\ sse'.idle_count = sse.idle_count + 1
           /\ sse'.idle_count >= MaxIdleCount => sse'.pc = "final" ]_vars

\* the treadmill is at rest: whatever is read from it has speed 0 and an idle
\* or standby belt
AtRest == dev.speed = 0 /\ dev.belt \in {"idle", "standby"}

\* C33 (as stated): a stream that from some point on is open on a treadmill
\* at rest, and whose loop keeps being resumed, eventually yields the final
\* stopped event or is closed.
C33_RestingStreamEnds ==
    <>[](sse.route = StreamRoute /\ AtRest) => <>(sse.pc \in {"final", "closed"})

\* a write to the treadmill is started only on a set is_connected
WritesOnSetFlag ==
    \A f \in FlowIds :
       (flows[f].pc # "wrote" /\ flows'[f].pc = "wrote") => is_connected'

\* the call that opened the link closes it only when no other call is inside
\* its wrapped method
OpenerClosesAlone ==
    \A f \in FlowIds :
       (flows[f].pc = "wrote" /\ flows'[f].pc = "closing" /\ ~flows[f].was_connected)
          => \A g \in FlowIds \ {f} : flows[g].pc = "out"

\* C40 (as stated): when calls of connection-wrapped methods interleave at
\* their awaits, every write to the treadmill is started while is_connected
\* is set, and the call that opened the link closes it only when no other
\* call is still inside.
C40_InterleavedFlowsKeepLink == [][WritesOnSetFlag /\ OpenerClosesAlone]_vars

\* the first half on its own
EveryWriteOnSetFlag == [][WritesOnSetFlag]_vars

====
